---- MODULE Spec2Model ----
(***************************************************************************)
(* Model of the Ladino chatbot gateway.                                    *)
(*                                                                         *)
(*  - ladinobot.py: the per-user history store (a dict of Python lists),   *)
(*    get_conversation_history, update_conversation_history,               *)
(*    get_openai_response, translate and handle_message, run by the        *)
(*    transport's worker threads.  Every access to the shared dict or to   *)
(*    a shared list is a step of its own, so that workers interleave       *)
(*    between any two of them.                                             *)
(*  - claude_handler.py: ClaudeHandler (knowledge loading, the knowledge   *)
(*    block, get_response), modelled further down.                         *)
(***************************************************************************)
EXTENDS Integers, Sequences, FiniteSets, TLC

(***************************************************************************)
(* Bounds of the model.                                                    *)
(***************************************************************************)
\* Number of inbound messages over a run of the bot with workers that
\* interleave (Spec).
MaxMessages == 2
\* Number of exchanges a user may have completed, one after another,
\* before such a run starts: none, MaxPrior - 1 or MaxPrior.
MaxPrior == 5
\* Number of inbound messages over a run that handles them one at a time
\* (SpecSeq).
MaxExchanges == 6
\* Total number of failures of the collaborators (translation API, model
\* provider, chat transport) over a run.
MaxFaults == 2

\* The chat users that send messages (message.from_user.id).
Users == {101, 102}
\* The transport's worker threads, each running handle_message calls.
Workers == {"w1", "w2"}

(***************************************************************************)
(* Program constants.                                                      *)
(***************************************************************************)
\* ladinobot.py line 106: "if len(history) > 10".
HistoryLimit == 10

\* A text that is not there (Python's None where a string is expected).
None == "None"

\* The value of the dict at a key that is not in it, and of the local name
\* "history" before it is bound: no list object.
Absent == <<>>

\* The list objects of the heap.  Every evaluation of the list display "[]"
\* at ladinobot.py line 97 is a fresh object; worker w runs that line for
\* user u at most once (afterwards u stays in the dict), so <<u, w>> names it.
ListIds == Users \X Workers

VARIABLES
    conversation_histories, \* the dict: user id -> list object, or Absent
    heap,                   \* list object -> its contents (a sequence of turns)
    pc,                     \* per worker: the step it is about to take
    caller,                 \* per worker: which call of get/update it is in
    user_id,                \* per worker: handle_message's user_id
    user_message_es,        \* per worker: handle_message's user_message_es
    openai_response,        \* per worker: handle_message's openai_response
    history,                \* per worker: the local name "history"
    messages,               \* per worker: the payload sent to the provider
    sent,                   \* per user: number of messages received from them
    handled,                \* per user: number of handle_message calls ended
    chron,                  \* per user: turns of their exchanges, as they arose
    unhandled,              \* number of exceptions that left handle_message
    faults,                 \* number of collaborator failures so far
    dispatched              \* number of messages dispatched in this run

botVars == <<conversation_histories, heap, pc, caller, user_id, user_message_es,
             openai_response, history, messages, sent, handled, chron,
             unhandled, faults, dispatched>>

(***************************************************************************)
(* Texts.  A text is a record: n is the number of the exchange (per user)  *)
(* it belongs to, text says what it is.                                    *)
(***************************************************************************)
Text(n, t) == [n |-> n, text |-> t]

\* ladinobot.py line 45
SYSTEM_PROMPT == Text(0, "SYSTEM_PROMPT")

\* ladinobot.py lines 141, 144 and 258: the one apology string.
Apology == "Lo siento"

Turn(role, content) == [role |-> role, content |-> content]

\* translate(): the collaborator's translation when the call succeeds, the
\* text itself on every failure path (lines 165, 169, 194, 198, 201, 204).
translate(text, src_lang, api_ok) ==
    IF src_lang \notin {"es", "lad"} THEN text
    ELSE IF ~api_ok THEN text
    ELSE [text EXCEPT !.text = IF src_lang = "es" THEN "lad" ELSE "es"]

(***************************************************************************)
(* The dict and the lists.                                                 *)
(***************************************************************************)
\* "[]" at line 97: the fresh list object made by worker w for user u.
NewList(u, w) == <<u, w>>

\* A dict assignment that lands on every key.
DictSet_EveryKey(d, k, v) == [x \in DOMAIN d |-> v]

\* d[k] = v on the dict.
DictSet(d, k, v) == [d EXCEPT ![k] = v]

\* list.append(x)
ListAppend(s, x) == Append(s, x)

\* A pop that takes the newest element: list.pop().
ListPop0_Last(s) == SubSeq(s, 1, Len(s) - 1)

\* list.pop(0)
ListPop0(s) == Tail(s)

\* The length test off by one: "> 11".
TooLong_OffByOne(s) == Len(s) > HistoryLimit + 1

\* Line 106: the test that decides whether line 107 runs.
TooLong(s) == Len(s) > HistoryLimit

\* A payload that carries only the last HistoryLimit - 1 turns of the list.
BuildMessages_Window(hist, user_message) ==
    <<Turn("system", SYSTEM_PROMPT)>>
        \o SubSeq(hist, IF Len(hist) > HistoryLimit - 1
                        THEN Len(hist) - (HistoryLimit - 1) + 1 ELSE 1,
                  Len(hist))
        \o <<Turn("user", user_message)>>

\* Lines 116-120: the payload built from the history list and the message.
BuildMessages(hist, user_message) ==
    <<Turn("system", SYSTEM_PROMPT)>> \o hist \o <<Turn("user", user_message)>>

\* The stored history of user u, as a reader of the dict sees it.
Stored(u) ==
    IF conversation_histories[u] = Absent THEN <<>>
    ELSE heap[conversation_histories[u]]

\* Lines 103-107 in one piece: what update_conversation_history makes of
\* the list when nothing runs between its lines.
Updated(s, turn) ==
    LET appended == ListAppend(s, turn)
    IN IF TooLong(appended) THEN ListPop0(appended) ELSE appended

\* The turns of k exchanges without failures, in the order they arise.
RECURSIVE PriorTurns(_)
PriorTurns(k) ==
    IF k = 0 THEN <<>>
    ELSE PriorTurns(k - 1) \o <<Turn("user", Text(k, "es")),
                                Turn("assistant", Text(k, "reply"))>>

\* The list after k such exchanges handled one after another.
RECURSIVE PriorList(_)
PriorList(k) ==
    IF k = 0 THEN <<>>
    ELSE Updated(Updated(PriorList(k - 1), Turn("user", Text(k, "es"))),
                 Turn("assistant", Text(k, "reply")))

\* The worker that handled the exchanges before the run.
FirstWorker == CHOOSE w \in Workers : TRUE

\* The state of the bot when prior[u] exchanges of each user u have been
\* handled one after another (none when the process has just started).
BotStart(prior) ==
    /\ conversation_histories =
          [u \in Users |-> IF prior[u] = 0 THEN Absent
                           ELSE NewList(u, FirstWorker)]
    /\ heap = [l \in ListIds |->
                 IF l[2] = FirstWorker THEN PriorList(prior[l[1]]) ELSE <<>>]
    /\ pc = [w \in Workers |-> "idle"]
    /\ caller = [w \in Workers |-> None]
    /\ user_id = [w \in Workers |-> 0]
    /\ user_message_es = [w \in Workers |-> Text(0, None)]
    /\ openai_response = [w \in Workers |-> Text(0, None)]
    /\ history = [w \in Workers |-> Absent]
    /\ messages = [w \in Workers |-> <<>>]
    /\ sent = prior
    /\ handled = prior
    /\ chron = [u \in Users |-> PriorTurns(prior[u])]
    /\ unhandled = 0
    /\ faults = 0
    /\ dispatched = 0

\* The state after the module is loaded (line 42: an empty dict).
BotInit == BotStart([u \in Users |-> 0])

(***************************************************************************)
(* A collaborator call that succeeds (ok) or fails; failures are counted   *)
(* against the fault budget of the run.                                    *)
(***************************************************************************)
Collaborator(ok) ==
    IF ok THEN UNCHANGED faults
    ELSE faults < MaxFaults /\ faults' = faults + 1

\* The locals of a handle_message call that has ended.
DropLocals(w) ==
    /\ caller' = [caller EXCEPT ![w] = None]
    /\ user_id' = [user_id EXCEPT ![w] = 0]
    /\ user_message_es' = [user_message_es EXCEPT ![w] = Text(0, None)]
    /\ openai_response' = [openai_response EXCEPT ![w] = Text(0, None)]
    /\ history' = [history EXCEPT ![w] = Absent]
    /\ messages' = [messages EXCEPT ![w] = <<>>]

(***************************************************************************)
(* handle_message, lines 226-235: a worker takes the next message of user  *)
(* u, translates it to Spanish and enters get_openai_response.             *)
(***************************************************************************)
Receive(w, u, tr_ok) ==
    /\ pc[w] = "idle"
    /\ dispatched' = dispatched + 1
    /\ Collaborator(tr_ok)
    /\ LET n == sent[u] + 1
           es == translate(Text(n, "lad"), "lad", tr_ok)
       IN /\ user_id' = [user_id EXCEPT ![w] = u]
          /\ user_message_es' = [user_message_es EXCEPT ![w] = es]
          /\ sent' = [sent EXCEPT ![u] = n]
          /\ chron' = [chron EXCEPT ![u] = Append(@, Turn("user", es))]
    /\ caller' = [caller EXCEPT ![w] = "get_openai_response"]
    /\ pc' = [pc EXCEPT ![w] = "gch_test"]
    /\ UNCHANGED <<conversation_histories, heap, openai_response, history,
                   messages, handled, unhandled>>

(***************************************************************************)
(* get_conversation_history, lines 96-98, one step per line.               *)
(***************************************************************************)
\* Line 96: "if user_id not in conversation_histories".
gch_test(w) ==
    /\ pc[w] = "gch_test"
    /\ pc' = [pc EXCEPT ![w] =
                IF conversation_histories[user_id[w]] = Absent
                THEN "gch_create" ELSE "gch_return"]
    /\ UNCHANGED <<conversation_histories, heap, caller, user_id,
                   user_message_es, openai_response, history, messages,
                   sent, handled, chron, unhandled, faults>>

\* Line 97: "conversation_histories[user_id] = []".
gch_create(w) ==
    /\ pc[w] = "gch_create"
    /\ LET l == NewList(user_id[w], w)
       IN /\ heap' = [heap EXCEPT ![l] = <<>>]
          /\ conversation_histories' =
                 DictSet(conversation_histories, user_id[w], l)
    /\ pc' = [pc EXCEPT ![w] = "gch_return"]
    /\ UNCHANGED <<caller, user_id, user_message_es, openai_response, history,
                   messages, sent, handled, chron, unhandled, faults>>

\* Line 98: "return conversation_histories[user_id]", bound to the caller's
\* local name "history" (lines 102 and 115).
gch_return(w) ==
    /\ pc[w] = "gch_return"
    /\ history' = [history EXCEPT ![w] = conversation_histories[user_id[w]]]
    /\ pc' = [pc EXCEPT ![w] =
                IF caller[w] = "get_openai_response" THEN "build_messages"
                ELSE "append"]
    /\ UNCHANGED <<conversation_histories, heap, caller, user_id,
                   user_message_es, openai_response, messages, sent, handled,
                   chron, unhandled, faults>>

(***************************************************************************)
(* get_openai_response, lines 113-144: line 115 is the three steps of      *)
(* get_conversation_history above.                                         *)
(***************************************************************************)
\* Lines 116-120: the payload is built from the list that "history" names,
\* as it is at this moment.
build_messages(w) ==
    /\ pc[w] = "build_messages"
    /\ messages' = [messages EXCEPT ![w] =
                      BuildMessages(heap[history[w]], user_message_es[w])]
    /\ pc' = [pc EXCEPT ![w] = "create"]
    /\ UNCHANGED <<conversation_histories, heap, caller, user_id,
                   user_message_es, openai_response, history, sent, handled,
                   chron, unhandled, faults>>

\* What client.chat.completions.create and the reading of its result may
\* do: succeed, or raise.
ProviderOutcomes == {"ok", "AttributeError", "Exception"}

\* Lines 123-144: the provider call and the return.  Every exception is
\* caught (lines 139-144) and turned into the apology.  Back in
\* handle_message, line 242 follows.
create(w, outcome) ==
    /\ pc[w] = "create"
    /\ Collaborator(outcome = "ok")
    /\ LET r == IF outcome = "ok"
                THEN Text(user_message_es[w].n, "reply")
                ELSE Text(0, Apology)
       IN /\ openai_response' = [openai_response EXCEPT ![w] = r]
          /\ chron' = [chron EXCEPT ![user_id[w]] =
                          Append(@, Turn("assistant", r))]
    /\ messages' = [messages EXCEPT ![w] = <<>>]
    /\ history' = [history EXCEPT ![w] = Absent]
    /\ caller' = [caller EXCEPT ![w] = "update_user"]
    /\ pc' = [pc EXCEPT ![w] = "gch_test"]
    /\ UNCHANGED <<conversation_histories, heap, user_id, user_message_es,
                   sent, handled, unhandled>>

(***************************************************************************)
(* update_conversation_history, lines 102-109: line 102 is the three steps *)
(* of get_conversation_history above; then one step per line.  It is       *)
(* called at line 242 with the user turn and at line 243 with the          *)
(* assistant turn.                                                         *)
(***************************************************************************)
\* Lines 242-243 in the other order: the assistant turn first.
NewTurn_Swapped(w) ==
    IF caller[w] = "update_user"
    THEN Turn("assistant", openai_response[w])
    ELSE Turn("user", user_message_es[w])

NewTurn(w) ==
    IF caller[w] = "update_user"
    THEN Turn("user", user_message_es[w])
    ELSE Turn("assistant", openai_response[w])

\* Line 103: history.append({"role": role, "content": content})
append(w) ==
    /\ pc[w] = "append"
    /\ heap' = [heap EXCEPT ![history[w]] = ListAppend(@, NewTurn(w))]
    /\ pc' = [pc EXCEPT ![w] = "len_test"]
    /\ UNCHANGED <<conversation_histories, caller, user_id, user_message_es,
                   openai_response, history, messages, sent, handled, chron,
                   unhandled, faults, dispatched>>

\* Line 106: if len(history) > 10
len_test(w) ==
    /\ pc[w] = "len_test"
    /\ pc' = [pc EXCEPT ![w] =
                IF TooLong(heap[history[w]]) THEN "pop" ELSE "write_back"]
    /\ UNCHANGED <<conversation_histories, heap, caller, user_id,
                   user_message_es, openai_response, history, messages,
                   sent, handled, chron, unhandled, faults>>

\* Line 107: history.pop(0)
pop(w) ==
    /\ pc[w] = "pop"
    /\ heap' = [heap EXCEPT ![history[w]] = ListPop0(@)]
    /\ pc' = [pc EXCEPT ![w] = "write_back"]
    /\ UNCHANGED <<conversation_histories, caller, user_id, user_message_es,
                   openai_response, history, messages, sent, handled, chron,
                   unhandled, faults, dispatched>>

\* Line 109: conversation_histories[user_id] = history; then back in
\* handle_message, on to line 243 or to line 246.
write_back(w) ==
    /\ pc[w] = "write_back"
    /\ conversation_histories' =
           DictSet(conversation_histories, user_id[w], history[w])
    /\ IF caller[w] = "update_user"
       THEN /\ caller' = [caller EXCEPT ![w] = "update_assistant"]
            /\ pc' = [pc EXCEPT ![w] = "gch_test"]
       ELSE /\ caller' = [caller EXCEPT ![w] = None]
            /\ pc' = [pc EXCEPT ![w] = "reply"]
    /\ history' = [history EXCEPT ![w] = Absent]
    /\ UNCHANGED <<heap, user_id, user_message_es, openai_response, messages,
                   sent, handled, chron, unhandled, faults>>

(***************************************************************************)
(* handle_message, lines 246-258.  translate never raises, and what it     *)
(* returns goes to the transport only; bot.reply_to is a call of the       *)
(* transport, which may raise.                                             *)
(***************************************************************************)
\* Lines 246-253: translate the reply and send it; handle_message returns,
\* or bot.reply_to raises and "except Exception" at line 255 takes over.
reply(w, transport_ok) ==
    /\ pc[w] = "reply"
    /\ Collaborator(transport_ok)
    /\ IF transport_ok
       THEN /\ handled' = [handled EXCEPT ![user_id[w]] = @ + 1]
            /\ pc' = [pc EXCEPT ![w] = "idle"]
            /\ DropLocals(w)
       ELSE /\ pc' = [pc EXCEPT ![w] = "except"]
            /\ UNCHANGED <<handled, caller, user_id, user_message_es,
                           openai_response, history, messages>>
    /\ UNCHANGED <<conversation_histories, heap, sent, chron, unhandled>>

\* Lines 255-258: the handler of "except Exception" logs and calls
\* bot.reply_to again; nothing encloses that call, so what it raises leaves
\* handle_message.
except(w, transport_ok) ==
    /\ pc[w] = "except"
    /\ Collaborator(transport_ok)
    /\ unhandled' = IF transport_ok THEN unhandled ELSE unhandled + 1
    /\ handled' = [handled EXCEPT ![user_id[w]] = @ + 1]
    /\ pc' = [pc EXCEPT ![w] = "idle"]
    /\ DropLocals(w)
    /\ UNCHANGED <<conversation_histories, heap, sent, chron>>

(***************************************************************************)
(* claude_handler.py.  A text is a sequence of characters and of literal   *)
(* pieces (strings); concatenation is \o, so that two texts are the same   *)
(* bytes exactly when the sequences are equal.                             *)
(***************************************************************************)
\* Bound on the handler's history_window parameter.
MaxWindow == 3
\* Bound on the length of the conversation_history passed to get_response.
MaxHistory == 3

VARIABLES
    knowledge_dir,       \* the directory: whether it exists, and its files
    history_window,      \* self.history_window
    handler,             \* "new", "ready" (constructed) or "failed" (__init__ raised)
    loaded,              \* what _load_knowledge_resources returned in __init__
    enumerated,          \* the files the directory enumeration yielded to it
    cached_knowledge,    \* self.cached_knowledge
    rebuilt,             \* a second build of the knowledge block: its result
    call                 \* the last get_response call: its inputs and results

claudeVars == <<knowledge_dir, history_window, handler, loaded, enumerated,
                cached_knowledge, rebuilt, call>>

vars == <<botVars, claudeVars>>

Max(a, b) == IF a > b THEN a ELSE b
Min(a, b) == IF a < b THEN a ELSE b

Range(s) == {s[i] : i \in DOMAIN s}

\* The sequences that list every element of the set S once.
Orders(S) ==
    {s \in [1..Cardinality(S) -> S] : \A x \in S : \E i \in DOMAIN s : s[i] = x}

(***************************************************************************)
(* The knowledge directory.                                                *)
(***************************************************************************)
Whitespace == {" ", "\n"}

File(stem, suffix, content, readable) ==
    [stem |-> stem, suffix |-> suffix, content |-> content, readable |-> readable]

FileContents == {<<"X">>, <<" ", "Y", " ", "Z", "\n">>}

\* The directories of the model: a.txt and b.txt, each absent or present
\* with one of the contents, readable or not, and a.md, present or not.
TxtChoices(stem) ==
    {{}} \cup {{File(stem, ".txt", c, r)} : c \in FileContents, r \in BOOLEAN}

Directories ==
    {[exists |-> FALSE, files |-> {}]} \cup
    {[exists |-> TRUE, files |-> a \cup b \cup m] :
        a \in TxtChoices("a"), b \in TxtChoices("b"),
        m \in {{}, {File("a", ".md", <<"M">>, TRUE)}}}

\* Line 172: self.knowledge_dir.glob("*.txt") selects these files; the
\* order in which it yields them is the directory's, which nothing fixes.
Glob(dir) == {f \in dir.files : f.suffix = ".txt"}

\* str.strip() at line 175.
RECURSIVE lstrip(_)
lstrip(t) ==
    IF t # <<>> /\ Head(t) \in Whitespace THEN lstrip(Tail(t)) ELSE t

RECURSIVE rstrip(_)
rstrip(t) ==
    IF t # <<>> /\ t[Len(t)] \in Whitespace
    THEN rstrip(SubSeq(t, 1, Len(t) - 1)) ELSE t

strip(t) == rstrip(lstrip(t))

(***************************************************************************)
(* A Python dict with string keys, in insertion order: a sequence of       *)
(* <<key, value>> pairs without repeated keys.                             *)
(***************************************************************************)
Keys(d) == {d[i][1] : i \in DOMAIN d}

Lookup(d, k) == (CHOOSE i \in DOMAIN d : d[i][1] = k)

\* d[k] = v: a present key keeps its place, a new one goes to the end.
SetItem(d, k, v) ==
    IF k \in Keys(d)
    THEN [d EXCEPT ![Lookup(d, k)] = <<k, v>>]
    ELSE Append(d, <<k, v>>)

(***************************************************************************)
(* _load_knowledge_resources, lines 164-185.                               *)
(***************************************************************************)
\* Lines 173-179, one pass of the loop: the file's text is read, stripped
\* and stored under the file's stem; if reading raises, "except Exception"
\* at line 178 logs it and the loop goes on.  acc is the state of the loop:
\* whether an exception is propagating, and the dict so far.
LoadOne_NoCatch(acc, f) ==
    IF f.readable
    THEN [acc EXCEPT !.resources = SetItem(@, f.stem, strip(f.content))]
    ELSE [acc EXCEPT !.exc = TRUE]

LoadOne(acc, f) ==
    IF f.readable
    THEN [acc EXCEPT !.resources = SetItem(@, f.stem, strip(f.content))]
    ELSE acc

\* Line 172: the loop over the files the enumeration yields.
RECURSIVE LoadFiles(_, _)
LoadFiles(yielded, acc) ==
    IF yielded = <<>> \/ acc.exc THEN acc
    ELSE LoadFiles(Tail(yielded), LoadOne(acc, Head(yielded)))

\* Lines 183-185: "except Exception" around the whole body logs and returns
\* the dict as it is.
LoadCaught(body) == [raised |-> FALSE, resources |-> body.resources]

\* yielded: the files the enumeration yields, in its order; listing_raised:
\* whether the enumeration then raises instead of ending.
load_knowledge_resources(dir, yielded, listing_raised) ==
    IF ~dir.exists
    THEN [raised |-> FALSE, resources |-> <<>>]               \* lines 168-170
    ELSE LET l == LoadFiles(yielded, [exc |-> FALSE, resources |-> <<>>])
         IN LoadCaught([exc |-> l.exc \/ listing_raised,
                        resources |-> l.resources])

(***************************************************************************)
(* _prepare_knowledge_content, lines 42-63.                                *)
(***************************************************************************)
\* Lines 49-50: the entries, in the order of the dict.
RECURSIVE KnowledgeEntries(_)
KnowledgeEntries(resources) ==
    IF resources = <<>> THEN <<>>
    ELSE LET resource_name == resources[1][1]
             content == resources[1][2]
         IN <<"<", resource_name, ">\n">> \o content
              \o <<"\n</", resource_name, ">\n">>
              \o KnowledgeEntries(Tail(resources))

KnowledgeText(resources) ==
    <<"<knowledge_base>\n">> \o KnowledgeEntries(resources)
        \o <<"</knowledge_base>">>

prepare_knowledge_content(resources) ==
    [role |-> "user",
     content |-> <<[type |-> "text", text |-> KnowledgeText(resources),
                    cache_control |-> "ephemeral"]>>]

\* What the directory enumeration may do: yield the matching files in any
\* order, and either end, or raise after any number of them.
Enumerations(dir) ==
    IF ~dir.exists THEN {[yielded |-> <<>>, raised |-> FALSE]}
    ELSE {[yielded |-> o, raised |-> FALSE] : o \in Orders(Glob(dir))} \cup
         {[yielded |-> SubSeq(o, 1, k), raised |-> TRUE] :
             o \in Orders(Glob(dir)), k \in 0..Cardinality(Glob(dir))}

(***************************************************************************)
(* get_response, lines 100-162.                                            *)
(***************************************************************************)
\* Lines 158 and 162: the one fallback string.
Fallback == <<"Te rogo diskulpas">>

\* Python's s[start:] for any integer start.
SliceFrom(s, start) ==
    LET first == IF start < 0 THEN Max(Len(s) + start, 0)
                 ELSE Min(start, Len(s))
    IN SubSeq(s, first + 1, Len(s))

\* Lines 107-115: one turn of the history as a message.
FormatTurn(msg) ==
    [role |-> msg.role,
     content |-> <<[type |-> "text", text |-> msg.content]>>]

\* Lines 105-115: the part of the history that is sent.
FormatHistory(conversation_history, W) ==
    IF conversation_history # <<>>
    THEN LET recent == SliceFrom(conversation_history, -(W - 1))
         IN [i \in 1..Len(recent) |-> FormatTurn(recent[i])]
    ELSE <<>>

\* Lines 118-126: the current message.
FormatCurrent(user_message) ==
    [role |-> "user",
     content |-> <<[type |-> "text",
                    text |-> <<"Current message: ">> \o user_message]>>]

\* Lines 102-126.
FormatMessages(cached, W, conversation_history, user_message) ==
    <<cached>> \o FormatHistory(conversation_history, W)
               \o <<FormatCurrent(user_message)>>

\* The usage fields of a provider response, and the keys of usage_stats.
UsageFields == {"input_tokens", "output_tokens",
                "cache_read_input_tokens", "cache_creation_input_tokens"}
StatKeys == {"input_tokens", "output_tokens", "cache_read", "cache_created"}

\* Python's {}.
EmptyDict == [k \in {} |-> 0]

\* getattr(obj, name, default)
Getattr(obj, name, default) ==
    IF name \in DOMAIN obj THEN obj[name] ELSE default

\* The four fields read alike, as plain attributes without a default.
CollectUsage_NoDefaults(usage) ==
    IF UsageFields \subseteq DOMAIN usage
    THEN [exc |-> FALSE,
          stats |-> [k \in StatKeys |->
              CASE k = "input_tokens" -> usage["input_tokens"]
                [] k = "output_tokens" -> usage["output_tokens"]
                [] k = "cache_read" -> usage["cache_read_input_tokens"]
                [] k = "cache_created" ->
                       usage["cache_creation_input_tokens"]]]
    ELSE [exc |-> TRUE, stats |-> EmptyDict]

\* Lines 139-144.  response.usage.input_tokens and .output_tokens are plain
\* attribute reads, which raise AttributeError on a missing attribute.
CollectUsage(usage) ==
    IF {"input_tokens", "output_tokens"} \subseteq DOMAIN usage
    THEN [exc |-> FALSE,
          stats |-> [k \in StatKeys |->
              CASE k = "input_tokens" -> usage["input_tokens"]
                [] k = "output_tokens" -> usage["output_tokens"]
                [] k = "cache_read" ->
                       Getattr(usage, "cache_read_input_tokens", 0)
                [] k = "cache_created" ->
                       Getattr(usage, "cache_creation_input_tokens", 0)]]
    ELSE [exc |-> TRUE, stats |-> EmptyDict]

\* Lines 154-158: the first block's text, or the fallback on an empty
\* content list; reading .text of a block that has none raises.
ExtractText(content) ==
    IF content # <<>>
    THEN IF "text" \in DOMAIN content[1]
         THEN [exc |-> FALSE, text |-> content[1].text]
         ELSE [exc |-> TRUE, text |-> <<>>]
    ELSE [exc |-> FALSE, text |-> Fallback]

\* Lines 129-158, the body of the try after the messages are built.
TryBody(response) ==
    IF response.raises THEN [exc |-> TRUE, text |-> <<>>, stats |-> EmptyDict]
    ELSE LET u == CollectUsage(response.usage)
             t == ExtractText(response.content)
         IN IF u.exc THEN [exc |-> TRUE, text |-> <<>>, stats |-> EmptyDict]
            ELSE [exc |-> t.exc, text |-> t.text, stats |-> u.stats]

\* Lines 160-162: "except Exception" returns the fallback and {}.
ResponseCaught(body) ==
    IF body.exc
    THEN [raised |-> FALSE, text |-> Fallback, usage_stats |-> EmptyDict]
    ELSE [raised |-> FALSE, text |-> body.text, usage_stats |-> body.stats]

get_response(cached, W, conversation_history, user_message, response) ==
    [formatted_messages |->
         FormatMessages(cached, W, conversation_history, user_message),
     result |-> ResponseCaught(TryBody(response))]

(***************************************************************************)
(* Inputs of the ClaudeHandler model.                                      *)
(***************************************************************************)
\* __init__'s default for history_window, line 16.
DefaultWindow == 10

Roles == {"user", "assistant"}

\* Texts of the turns of a conversation history, by position.
TurnTexts == <<"t1", "t2", "t3", "t4", "t5", "t6", "t7", "t8">>

\* The conversation histories passed in: any roles, up to MaxHistory turns.
Histories ==
    UNION {{[i \in 1..k |-> [role |-> r[i], content |-> <<TurnTexts[i]>>]] :
               r \in [1..k -> Roles]} : k \in 0..MaxHistory}

TokenCount == [f \in UsageFields |->
    CASE f = "input_tokens" -> 11
      [] f = "output_tokens" -> 5
      [] f = "cache_read_input_tokens" -> 3
      [] f = "cache_creation_input_tokens" -> 2]

Usages == {[f \in S |-> TokenCount[f]] : S \in SUBSET UsageFields}

TextBlock(t) == [type |-> "text", text |-> t]
ToolBlock == [type |-> "tool_use", name |-> "tool"]

Contents == {<<>>,
             <<TextBlock(<<"hola">>)>>,
             <<TextBlock(<<"hola">>), TextBlock(<<"mas">>)>>,
             <<ToolBlock>>,
             <<ToolBlock, TextBlock(<<"hola">>)>>}

\* What client.messages.create may do: raise, or return a response.
Responses ==
    {[raises |-> TRUE, usage |-> EmptyDict, content |-> <<>>]} \cup
    {[raises |-> FALSE, usage |-> u, content |-> c] :
        u \in Usages, c \in Contents}

NoDirectory == [exists |-> FALSE, files |-> {}]

NotLoaded == [raised |-> FALSE, resources |-> <<>>]
NotEnumerated == [yielded |-> <<>>, raised |-> FALSE]

ClaudeStart(dirs, windows) ==
    /\ knowledge_dir \in dirs
    /\ history_window \in windows
    /\ handler = "new"
    /\ loaded = NotLoaded
    /\ enumerated = NotEnumerated
    /\ cached_knowledge = <<>>
    /\ rebuilt = <<>>
    /\ call = <<>>

(***************************************************************************)
(* __init__, lines 26-40: load, prepare, prime the cache.  When the        *)
(* priming call fails, _initialize_cache re-raises (line 85) and no        *)
(* handler comes to be.                                                    *)
(***************************************************************************)
construct(e, cache_ok) ==
    /\ handler = "new"
    /\ LET l == load_knowledge_resources(knowledge_dir, e.yielded, e.raised)
       IN /\ loaded' = l
          /\ cached_knowledge' = <<prepare_knowledge_content(l.resources)>>
    /\ enumerated' = e
    /\ handler' = IF cache_ok THEN "ready" ELSE "failed"
    /\ UNCHANGED <<knowledge_dir, history_window, rebuilt, call>>

\* Lines 32-35 once more, on the same directory: a second build of the
\* knowledge block (a second handler, or the process started again).
rebuild(e) ==
    /\ handler # "new"
    /\ rebuilt = <<>>
    /\ LET l == load_knowledge_resources(knowledge_dir, e.yielded, e.raised)
       IN rebuilt' = <<[enumerated |-> e, loaded |-> l,
                        knowledge |-> prepare_knowledge_content(l.resources)]>>
    /\ UNCHANGED <<knowledge_dir, history_window, handler, loaded, enumerated,
                   cached_knowledge, call>>

\* One call of get_response on the constructed handler.
respond(conversation_history, user_message, response) ==
    /\ handler = "ready"
    /\ call = <<>>
    /\ LET r == get_response(cached_knowledge[1], history_window,
                             conversation_history, user_message, response)
       IN call' = <<[conversation_history |-> conversation_history,
                     user_message |-> user_message,
                     response |-> response,
                     formatted_messages |-> r.formatted_messages,
                     result |-> r.result]>>
    /\ UNCHANGED <<knowledge_dir, history_window, handler, loaded, enumerated,
                   cached_knowledge, rebuilt>>

(***************************************************************************)
(* Specifications.                                                         *)
(***************************************************************************)
ClaudeUnused == ClaudeStart({NoDirectory}, {DefaultWindow})

\* The bot with workers that interleave at every step, started in any state
\* that exchanges handled one after another lead to.
PriorChoices == {0, MaxPrior - 1, MaxPrior}

Init ==
    /\ \E prior \in [Users -> PriorChoices] : BotStart(prior)
    /\ ClaudeUnused

\* The transport hands a message to a worker that is free.  The workers are
\* alike, so which of the free ones takes it makes no difference.
FreeWorker == CHOOSE w \in Workers : pc[w] = "idle"

Dispatch ==
    /\ dispatched < MaxMessages
    /\ \E w \in Workers : pc[w] = "idle"
    /\ \E u \in Users, tr_ok \in BOOLEAN : Receive(FreeWorker, u, tr_ok)
    /\ UNCHANGED claudeVars

\* What a step of a handle_message call leaves alone.
Rest == UNCHANGED <<dispatched, claudeVars>>

Next ==
    \/ Dispatch
    \/ \E w \in Workers : gch_test(w) /\ Rest
    \/ \E w \in Workers : gch_create(w) /\ Rest
    \/ \E w \in Workers : gch_return(w) /\ Rest
    \/ \E w \in Workers : build_messages(w) /\ Rest
    \/ \E w \in Workers, outcome \in ProviderOutcomes :
           create(w, outcome) /\ Rest
    \/ \E w \in Workers : append(w) /\ Rest
    \/ \E w \in Workers : len_test(w) /\ Rest
    \/ \E w \in Workers : pop(w) /\ Rest
    \/ \E w \in Workers : write_back(w) /\ Rest
    \/ \E w \in Workers, transport_ok \in BOOLEAN :
           reply(w, transport_ok) /\ Rest
    \/ \E w \in Workers, transport_ok \in BOOLEAN :
           except(w, transport_ok) /\ Rest

Spec == Init /\ [][Next]_vars

\* The bot when the transport hands over a message only after the handling
\* of the one before has ended (exchanges one at a time), from the start of
\* the process.
AllIdle == \A w \in Workers : pc[w] = "idle"

InitSeq == BotInit /\ ClaudeUnused

DispatchSeq ==
    /\ AllIdle
    /\ dispatched < MaxExchanges
    /\ \E w \in Workers, u \in Users, tr_ok \in BOOLEAN : Receive(w, u, tr_ok)
    /\ UNCHANGED claudeVars

NextSeq ==
    \/ DispatchSeq
    \/ \E w \in Workers : gch_test(w) /\ Rest
    \/ \E w \in Workers : gch_create(w) /\ Rest
    \/ \E w \in Workers : gch_return(w) /\ Rest
    \/ \E w \in Workers : build_messages(w) /\ Rest
    \/ \E w \in Workers, outcome \in ProviderOutcomes :
           create(w, outcome) /\ Rest
    \/ \E w \in Workers : append(w) /\ Rest
    \/ \E w \in Workers : len_test(w) /\ Rest
    \/ \E w \in Workers : pop(w) /\ Rest
    \/ \E w \in Workers : write_back(w) /\ Rest
    \/ \E w \in Workers, transport_ok \in BOOLEAN :
           reply(w, transport_ok) /\ Rest
    \/ \E w \in Workers, transport_ok \in BOOLEAN :
           except(w, transport_ok) /\ Rest

SpecSeq == InitSeq /\ [][NextSeq]_vars

\* The knowledge loader and the knowledge block, over every directory.
InitKnowledge == BotInit /\ ClaudeStart(Directories, {DefaultWindow})

NextKnowledge ==
    \/ \E e \in Enumerations(knowledge_dir), cache_ok \in BOOLEAN :
           construct(e, cache_ok) /\ UNCHANGED botVars
    \/ \E e \in Enumerations(knowledge_dir) :
           rebuild(e) /\ UNCHANGED botVars

SpecKnowledge == InitKnowledge /\ [][NextKnowledge]_vars

\* get_response, over every window, history and provider behaviour.
SampleDirectories ==
    {NoDirectory,
     [exists |-> TRUE,
      files |-> {File("a", ".txt", <<"X">>, TRUE),
                 File("b", ".txt", <<" ", "Y", " ", "Z", "\n">>, TRUE)}]}

InitClaude == BotInit /\ ClaudeStart(SampleDirectories, 1..MaxWindow)

NextClaude ==
    \/ \E e \in Enumerations(knowledge_dir), cache_ok \in BOOLEAN :
           construct(e, cache_ok) /\ UNCHANGED botVars
    \/ \E h \in Histories, r \in Responses :
           respond(h, <<"m">>, r) /\ UNCHANGED botVars

SpecClaude == InitClaude /\ [][NextClaude]_vars

(***************************************************************************)
(* Properties of the history store (ladinobot.py).                         *)
(***************************************************************************)
\* Worker w is inside a call of update_conversation_history.
InUpdate(w) == caller[w] \in {"update_user", "update_assistant"}

\* No call of update_conversation_history for user u is in progress.
Quiet(u) == \A w \in Workers : ~(InUpdate(w) /\ user_id[w] = u)

\* C1: whenever no update_conversation_history call for a user is in
\* progress, that user's stored history has at most 10 turns, whatever the
\* interleaving of the calls has been.
C1_BoundedWhenQuiet ==
    \A u \in Users : Quiet(u) => Len(Stored(u)) <= HistoryLimit

\* Two exchanges of one user have run on a full history, both have ended,
\* and the history is full again: four turns were appended and evicted.
C1_Witness ==
    /\ AllIdle
    /\ \E u \in Users :
          /\ Len(chron[u]) >= HistoryLimit + 4
          /\ Len(Stored(u)) = HistoryLimit

\* C2: after N exchanges of a user handled one after another, the stored
\* history has length min(2N, 10) and is the last min(2N, 10) turns of
\* user_1, assistant_1, ..., user_N, assistant_N, in that order.
C2_LastTurnsInOrder ==
    AllIdle =>
        \A u \in Users :
            LET N == handled[u]
                m == Min(2 * N, HistoryLimit)
            IN /\ Len(chron[u]) = 2 * N
               /\ \A k \in 1..N :
                     /\ chron[u][2 * k - 1].role = "user"
                     /\ chron[u][2 * k - 1].content.n = k
                     /\ chron[u][2 * k].role = "assistant"
               /\ Len(Stored(u)) = m
               /\ \A i \in 1..m : Stored(u)[i] = chron[u][2 * N - m + i]

\* An exchange has been handled on a full history: six exchanges of one
\* user are done, and the history starts at the third turn of the
\* chronological sequence, the two oldest turns being gone.
C2_Witness ==
    /\ AllIdle
    /\ \E u \in Users :
          /\ 2 * handled[u] = HistoryLimit + 2
          /\ Len(Stored(u)) = HistoryLimit
          /\ Stored(u)[1] = chron[u][3]
          /\ Stored(u)[1] # chron[u][1]

\* C5 (as claimed): no exception leaves handle_message, whichever of its
\* steps fails, the sending of the reply through the transport included.
C5_NoExceptionLeaves == unhandled = 0

\* The worker that takes a step (the one whose position changes), and the
\* user whose exchange that step belongs to.
Stepped(w) == pc'[w] # pc[w]
Concerns(w, u) == user_id[w] = u \/ user_id'[w] = u

\* C6: a step of an exchange of one user leaves the dict entry and the
\* stored history of every other user unchanged.
C6_OtherUsersUntouched ==
    [][\A w \in Workers : Stepped(w) =>
          \A u \in Users : ~Concerns(w, u) =>
              /\ conversation_histories'[u] = conversation_histories[u]
              /\ Stored(u)' = Stored(u)]_vars

\* Exchanges of two different users interleave: one worker is about to
\* evict from its user's list while the other is about to append to the
\* list of another user.
C6_Witness ==
    \E w1 \in Workers, w2 \in Workers :
        /\ pc[w1] = "pop"
        /\ pc[w2] = "append"
        /\ user_id[w1] # user_id[w2]
        /\ Len(Stored(user_id[w2])) > 0

\* The roles of a history alternate, the first turn being the user's.
Alternates(s) ==
    \A i \in 1..Len(s) :
        s[i].role = IF i % 2 = 1 THEN "user" ELSE "assistant"

\* C7: with the exchanges handled one at a time, after every completed
\* exchange the stored history has an even number of turns that alternate
\* user, assistant, ..., from a user turn to an assistant turn; the
\* assistant turn of an exchange whose model call failed is the apology.
C7_Alternates ==
    AllIdle =>
        \A u \in Users :
            /\ Alternates(Stored(u))
            /\ Len(Stored(u)) % 2 = 0
            /\ Len(Stored(u)) = 0 => handled[u] = 0
            /\ \A i \in 1..Len(Stored(u)) :
                  IF Stored(u)[i].role = "user"
                  THEN Stored(u)[i].content.text \in {"es", "lad"}
                  ELSE Stored(u)[i].content.text \in {"reply", Apology}

\* Evictions have happened (more than ten turns arose) and the newest turn
\* of the full history is the apology of a failed model call.
C7_Witness ==
    /\ AllIdle
    /\ \E u \in Users :
          /\ Len(chron[u]) > HistoryLimit
          /\ Len(Stored(u)) = HistoryLimit
          /\ Stored(u)[HistoryLimit] = Turn("assistant", Text(0, Apology))

\* The turns of a payload between its first and its last message.
PriorTurnsSent(m) == SubSeq(m, 2, Len(m) - 1)

C3_RecentTurnsSent ==
    call # <<>> =>
        LET W == history_window
            h == call[1].conversation_history
            fm == call[1].formatted_messages
            k == Min(W - 1, Len(h))
        IN /\ Len(fm) = k + 2
           /\ Len(fm) <= W + 1
           /\ fm[1] = cached_knowledge[1]
           /\ fm[1].role = "user"
           /\ fm[1].content[1].cache_control = "ephemeral"
           /\ \A i \in 1..k :
                 /\ fm[1 + i].role = h[Len(h) - k + i].role
                 /\ fm[1 + i].content[1].text = h[Len(h) - k + i].content
           /\ fm[Len(fm)].role = "user"
           /\ fm[Len(fm)].content[1].text =
                  <<"Current message: ">> \o call[1].user_message

\* How a provider response fares in get_response.
Raises(r) == r.raises
LacksUsage(r) == ~({"input_tokens", "output_tokens"} \subseteq DOMAIN r.usage)
EmptyContent(r) == r.content = <<>>
NoFirstText(r) == r.content # <<>> /\ "text" \notin DOMAIN r.content[1]
WellFormed(r) ==
    ~Raises(r) /\ ~LacksUsage(r) /\ ~EmptyContent(r) /\ ~NoFirstText(r)

\* The response field that a key of usage_stats is taken from.
FieldOf(k) ==
    CASE k = "input_tokens" -> "input_tokens"
      [] k = "output_tokens" -> "output_tokens"
      [] k = "cache_read" -> "cache_read_input_tokens"
      [] k = "cache_created" -> "cache_creation_input_tokens"

\* usage_stats holds every key, with the response's value where the
\* response has the field and 0 where it has not.
StatsWithZeros(stats, r) ==
    /\ DOMAIN stats = StatKeys
    /\ \A k \in StatKeys :
          stats[k] = IF ~Raises(r) /\ FieldOf(k) \in DOMAIN r.usage
                     THEN r.usage[FieldOf(k)] ELSE 0

\* C4 (as claimed): get_response never raises; when the provider call
\* raises, the content list is empty or usage fields are missing it returns
\* the fallback string with usage stats whose unavailable fields are zero;
\* on a well-formed response it returns the first text segment and the
\* usage fields, missing cache fields being 0.
C4_FallbackWithZeroStats ==
    call # <<>> =>
        LET r == call[1].response
            res == call[1].result
        IN /\ ~res.raised
           /\ (Raises(r) \/ EmptyContent(r) \/ LacksUsage(r)) =>
                 /\ res.text = Fallback
                 /\ DOMAIN res.usage_stats = StatKeys
                 /\ \A k \in StatKeys :
                       (Raises(r) \/ FieldOf(k) \notin DOMAIN r.usage) =>
                           res.usage_stats[k] = 0
           /\ WellFormed(r) =>
                 /\ res.text = r.content[1].text
                 /\ StatsWithZeros(res.usage_stats, r)

\* C4 (amended): get_response never raises.  When the provider call raises,
\* a required usage field (input_tokens, output_tokens) is missing or the
\* first content block has no text, it returns the fallback string with an
\* empty usage-stats dict (no keys at all).  When only the content list is
\* empty it returns the fallback string with the four usage stats, and on a
\* well-formed response the first text segment with the four usage stats;
\* in both, a missing cache field counts as 0.
C4_FallbackWithEmptyStats ==
    call # <<>> =>
        LET r == call[1].response
            res == call[1].result
        IN /\ ~res.raised
           /\ (Raises(r) \/ LacksUsage(r) \/ NoFirstText(r)) =>
                 /\ res.text = Fallback
                 /\ DOMAIN res.usage_stats = {}
           /\ (~Raises(r) /\ ~LacksUsage(r) /\ EmptyContent(r)) =>
                 /\ res.text = Fallback
                 /\ StatsWithZeros(res.usage_stats, r)
           /\ WellFormed(r) =>
                 /\ res.text = r.content[1].text
                 /\ StatsWithZeros(res.usage_stats, r)

\* get_response has handled a response whose required usage field is
\* missing, and has returned the fallback with the empty dict.
C4_Witness ==
    /\ call # <<>>
    /\ ~Raises(call[1].response)
    /\ "input_tokens" \in DOMAIN call[1].response.usage
    /\ "output_tokens" \notin DOMAIN call[1].response.usage
    /\ call[1].response.content # <<>>
    /\ call[1].result.text = Fallback
    /\ call[1].result.usage_stats = EmptyDict

\* C8 (as claimed): on an unchanged directory, two successive builds of the
\* knowledge block (load, then prepare) give the same text, whatever order
\* the directory enumeration yields the files in.
C8_BuildsIdentical ==
    (handler # "new" /\ rebuilt # <<>>
       /\ ~enumerated.raised /\ ~rebuilt[1].enumerated.raised) =>
        rebuilt[1].knowledge = cached_knowledge[1]

\* v is the text c without its leading and trailing whitespace.
Trimmed(v, c) ==
    /\ \E i \in 1..(Len(c) + 1), j \in 0..Len(c) :
          /\ v = SubSeq(c, i, j)
          /\ \A n \in 1..Len(c) : (n < i \/ n > j) => c[n] \in Whitespace
    /\ v # <<>> => (v[1] \notin Whitespace /\ v[Len(v)] \notin Whitespace)

\* The value a dict holds for a key.
ValueOf(d, k) == d[Lookup(d, k)][2]

\* C9: _load_knowledge_resources never raises; for a directory that does
\* not exist it returns an empty mapping; otherwise the keys of the mapping
\* are exactly the stems of the .txt files that were read successfully (a
\* file whose read fails is skipped, the files after it are still loaded),
\* each mapped to its whitespace-trimmed content.
C9_LoadsReadableFiles ==
    handler # "new" =>
        LET read == {f \in Range(enumerated.yielded) : f.readable}
        IN /\ ~loaded.raised
           /\ ~knowledge_dir.exists => loaded.resources = <<>>
           /\ \A f \in Range(enumerated.yielded) : f.suffix = ".txt"
           /\ ~enumerated.raised =>
                 Range(enumerated.yielded) =
                     {f \in knowledge_dir.files : f.suffix = ".txt"}
           /\ Keys(loaded.resources) = {f.stem : f \in read}
           /\ Len(loaded.resources) = Cardinality(read)
           /\ \A f \in read :
                 Trimmed(ValueOf(loaded.resources, f.stem), f.content)

\* A file whose read fails came first, a readable file with whitespace
\* around its text after it, and the second one is in the mapping, trimmed.
C9_Witness ==
    /\ handler # "new"
    /\ Len(enumerated.yielded) = 2
    /\ ~enumerated.yielded[1].readable
    /\ enumerated.yielded[2].readable
    /\ Len(enumerated.yielded[2].content) > 1
    /\ Keys(loaded.resources) = {enumerated.yielded[2].stem}
    /\ loaded.resources[1][2] = <<"Y", " ", "Z">>

(***************************************************************************)
(* Two exchanges of one user handled by two workers at once.               *)
(***************************************************************************)
\* The number of places of the sequence s that hold x.
Occurrences(s, x) == Cardinality({i \in DOMAIN s : s[i] = x})

\* User u had no history when the run began, and exactly two exchanges of u
\* have run and ended since: four turns were appended for u.
TwoExchangesEnded(u) ==
    /\ AllIdle
    /\ sent[u] = 2
    /\ handled[u] = 2
    /\ Len(chron[u]) = 4

\* C11 (as claimed): when two exchanges of a user whose history was absent
\* have both finished, whatever the interleaving of the steps of
\* get_conversation_history and update_conversation_history has been, the
\* stored history of that user holds all four turns they appended.
C11_NoTurnLost ==
    \A u \in Users :
        TwoExchangesEnded(u) =>
            /\ Len(Stored(u)) = 4
            /\ \A t \in Range(chron[u]) :
                   Occurrences(Stored(u), t) = Occurrences(chron[u], t)

====
